---- MODULE Spec2Model ----
(***************************************************************************)
(* ChatScribe: the /parse/ request handler (main.py), the format inferrer  *)
(* auto_generate_pattern and the record extractor parse_chat_with_pattern. *)
(* Lines are strings; the regular expressions of the candidate table are   *)
(* sequences of quantified character classes, matched with the priority    *)
(* (greedy / lazy) of Python's backtracking matcher.                       *)
(***************************************************************************)
EXTENDS Integers, Sequences, FiniteSets, TLC

(***************************************************************************)
(* Characters and str.strip()                                              *)
(***************************************************************************)
CharAt(s, i) == SubSeq(s, i, i)

Whitespace == {" ", "\t", "\n", "\r"}

Digits == {"0", "1", "2", "3", "4", "5", "6", "7", "8", "9"}

RECURSIVE LStripFrom(_, _)
LStripFrom(s, i) ==
    IF i <= Len(s) /\ CharAt(s, i) \in Whitespace THEN LStripFrom(s, i + 1) ELSE i

RECURSIVE RStripFrom(_, _)
RStripFrom(s, j) ==
    IF j >= 1 /\ CharAt(s, j) \in Whitespace THEN RStripFrom(s, j - 1) ELSE j

Strip(s) ==
    LET i == LStripFrom(s, 1)
        j == RStripFrom(s, Len(s))
    IN IF i > j THEN "" ELSE SubSeq(s, i, j)

(***************************************************************************)
(* Regular expressions: a sequence of items, each a character class with a *)
(* repetition range, a greedy/lazy flag and a capture flag; anchored = the *)
(* expression ends in $. re.match anchors the start.                       *)
(***************************************************************************)
InClass(c, cls) == (c \in cls.set) # cls.neg

Dot == [neg |-> TRUE, set |-> {"\n"}]
WS == [neg |-> FALSE, set |-> Whitespace]
Digit == [neg |-> FALSE, set |-> Digits]
Not(chars) == [neg |-> TRUE, set |-> chars]

Item(cls, lo, hi, lazy, grp) ==
    [cls |-> cls, min |-> lo, max |-> hi, lazy |-> lazy, grp |-> grp]

Lit(c) == Item([neg |-> FALSE, set |-> {c}], 1, 1, FALSE, FALSE)
Star(cls) == Item(cls, 0, -1, FALSE, FALSE)
Plus(cls) == Item(cls, 1, -1, FALSE, FALSE)
LazyPlus(cls) == Item(cls, 1, -1, TRUE, FALSE)
Between(cls, lo, hi) == Item(cls, lo, hi, FALSE, FALSE)
Group(item) == [item EXCEPT !.grp = TRUE]

Regex(items, anchored) == [items |-> items, anchored |-> anchored]

\* the number of consecutive characters of s from pos that are in cls, at most cap
\* (cap < 0: no cap)
RECURSIVE RunLen(_, _, _, _)
RunLen(cls, s, pos, cap) ==
    IF cap # 0 /\ pos <= Len(s) /\ InClass(CharAt(s, pos), cls)
    THEN 1 + RunLen(cls, s, pos + 1, IF cap < 0 THEN cap ELSE cap - 1)
    ELSE 0

\* items i.. of re match s from position pos
RECURSIVE CanMatch(_, _, _, _)
CanMatch(re, i, s, pos) ==
    IF i > Len(re.items)
    THEN re.anchored => pos = Len(s) + 1
    ELSE LET it == re.items[i]
             hi == RunLen(it.cls, s, pos, it.max)
         IN \E k \in it.min..hi : CanMatch(re, i + 1, s, pos + k)

SetMin(S) == CHOOSE x \in S : \A y \in S : x <= y
SetMax(S) == CHOOSE x \in S : \A y \in S : x >= y

\* the repetition count the backtracking search settles on for item i at pos,
\* trying k, then k + step, ...: the first after which the rest still matches
RECURSIVE FirstCount(_, _, _, _, _, _)
FirstCount(re, i, s, pos, k, step) ==
    IF CanMatch(re, i + 1, s, pos + k) THEN k
    ELSE FirstCount(re, i, s, pos, k + step, step)

\* the text each item takes in the first match the backtracking search finds
\* (there is one): a greedy item tries its longest run first, a lazy item its
\* shortest
RECURSIVE Spans(_, _, _, _)
Spans(re, i, s, pos) ==
    IF i > Len(re.items)
    THEN << >>
    ELSE LET it == re.items[i]
             k == IF it.lazy
                  THEN FirstCount(re, i, s, pos, it.min, 1)
                  ELSE FirstCount(re, i, s, pos, RunLen(it.cls, s, pos, it.max), -1)
         IN << SubSeq(s, pos, pos + k - 1) >> \o Spans(re, i + 1, s, pos + k)

\* pattern.match(line) is not None
Matches(re, s) == CanMatch(re, 1, s, 1)

RECURSIVE SelectGroups(_, _, _)
SelectGroups(re, spans, i) ==
    IF i > Len(re.items)
    THEN << >>
    ELSE (IF re.items[i].grp THEN << spans[i] >> ELSE << >>)
         \o SelectGroups(re, spans, i + 1)

\* match.groups()
Groups(re, s) == SelectGroups(re, Spans(re, 1, s, 1), 1)

(***************************************************************************)
(* The candidate table patterns_to_try, in priority order: for each entry  *)
(* the test expression, the capture expression and the column names.       *)
(***************************************************************************)
\* ^\[.+?,\s*.+?\]\s*[^:]+:\s*.*
bracket_datetime_user_test ==
    Regex(<< Lit("["), LazyPlus(Dot), Lit(","), Star(WS), LazyPlus(Dot), Lit("]"),
             Star(WS), Plus(Not({":"})), Lit(":"), Star(WS), Star(Dot) >>, FALSE)

\* ^\[([^,]+),\s*(.+?)\]\s*([^:]+):\s*(.*)$
bracket_datetime_user_capture ==
    Regex(<< Lit("["), Group(Plus(Not({","}))), Lit(","), Star(WS),
             Group(LazyPlus(Dot)), Lit("]"), Star(WS), Group(Plus(Not({":"}))),
             Lit(":"), Star(WS), Group(Star(Dot)) >>, TRUE)

\* ^\d{1,2}/\d{1,2}/\d{2,4},\s*\d{1,2}:\d{1,2}\s*-\s*[^:]+:\s*.*
date_time_dash_user_test ==
    Regex(<< Between(Digit, 1, 2), Lit("/"), Between(Digit, 1, 2), Lit("/"),
             Between(Digit, 2, 4), Lit(","), Star(WS), Between(Digit, 1, 2),
             Lit(":"), Between(Digit, 1, 2), Star(WS), Lit("-"), Star(WS),
             Plus(Not({":"})), Lit(":"), Star(WS), Star(Dot) >>, FALSE)

\* ^([^,]+),\s*([^-]+)\s*-\s*([^:]+):\s*(.*)$
date_time_dash_user_capture ==
    Regex(<< Group(Plus(Not({","}))), Lit(","), Star(WS), Group(Plus(Not({"-"}))),
             Star(WS), Lit("-"), Star(WS), Group(Plus(Not({":"}))), Lit(":"),
             Star(WS), Group(Star(Dot)) >>, TRUE)

\* ^\[.+?\]\s*[^:]+:\s*.*
bracket_timestamp_user_test ==
    Regex(<< Lit("["), LazyPlus(Dot), Lit("]"), Star(WS), Plus(Not({":"})),
             Lit(":"), Star(WS), Star(Dot) >>, FALSE)

\* ^\[(.+?)\]\s*([^:]+):\s*(.*)$
bracket_timestamp_user_capture ==
    Regex(<< Lit("["), Group(LazyPlus(Dot)), Lit("]"), Star(WS),
             Group(Plus(Not({":"}))), Lit(":"), Star(WS), Group(Star(Dot)) >>, TRUE)

\* ^.+?\s*-\s*[^:]+:\s*.*
timestamp_dash_user_test ==
    Regex(<< LazyPlus(Dot), Star(WS), Lit("-"), Star(WS), Plus(Not({":"})),
             Lit(":"), Star(WS), Star(Dot) >>, FALSE)

\* ^(.+?)\s*-\s*([^:]+):\s*(.*)$
timestamp_dash_user_capture ==
    Regex(<< Group(LazyPlus(Dot)), Star(WS), Lit("-"), Star(WS),
             Group(Plus(Not({":"}))), Lit(":"), Star(WS), Group(Star(Dot)) >>, TRUE)

Candidate(name, test_re, capture_re, cols) ==
    [name |-> name, test_re |-> test_re, capture_re |-> capture_re, cols |-> cols]

patterns_to_try ==
    << Candidate("bracket_datetime_user", bracket_datetime_user_test,
                 bracket_datetime_user_capture, << "Date", "Time", "User", "Message" >>),
       Candidate("date_time_dash_user", date_time_dash_user_test,
                 date_time_dash_user_capture, << "Date", "Time", "User", "Message" >>),
       Candidate("bracket_timestamp_user", bracket_timestamp_user_test,
                 bracket_timestamp_user_capture, << "Timestamp", "User", "Message" >>),
       Candidate("timestamp_dash_user", timestamp_dash_user_test,
                 timestamp_dash_user_capture, << "Timestamp", "User", "Message" >>) >>

(***************************************************************************)
(* Bounds of the model and the requests it explores.  An upload is either  *)
(* any sequence of at most MaxLines lines of Library, or one line of       *)
(* Library repeated MaxRep - 1, MaxRep or 2 * MaxRep times, followed by at *)
(* most one other line; lines_to_sample is 1..MaxSmallSample or the        *)
(* default.                                                                *)
(***************************************************************************)
MaxLines == 3
MaxRep == 10
MaxSmallSample == 2
DefaultLinesToSample == 20

LDash == "10/5/23, 14:02 - Alice: Hello there"
LBracketDT == "[10/5/23, 14:02] Bob : Hi"
LBracketTs == "  [14:02] Bob: ok  "
LLoose == "hello, world - Bob: hi"
LOdd == "[,,a] x: y"
LNoise == "*** system notice ***"
LBlank == " \t"

Library == {LDash, LBracketDT, LBracketTs, LLoose, LOdd, LNoise, LBlank}

RECURSIVE Repeat(_, _)
Repeat(l, n) == IF n = 0 THEN << >> ELSE << l >> \o Repeat(l, n - 1)

RECURSIVE FilesUpTo(_)
FilesUpTo(n) ==
    IF n = 0
    THEN {<< >>}
    ELSE LET shorter == FilesUpTo(n - 1)
         IN shorter \cup {<< l >> \o f : l \in Library, f \in shorter}

LongFiles ==
    {Repeat(l, c) \o t : l \in Library, c \in {MaxRep - 1, MaxRep, 2 * MaxRep},
                         t \in FilesUpTo(1)}

Uploads == FilesUpTo(MaxLines) \cup LongFiles

SampleSizes == (1..MaxSmallSample) \cup {DefaultLinesToSample}

(***************************************************************************)
(* State                                                                   *)
(***************************************************************************)
VARIABLES
    filename_ok,      \* file.filename.endswith(".txt")
    upload,           \* the physical lines of the uploaded file
    lines_to_sample,  \* the request's lines_to_sample
    pc,               \* the handler's position
    temp_on_disk,     \* the temporary file exists on disk
    temp_file_path,   \* main.py's temp_file_path: "None" or "tmp"
    exc,              \* the exception in flight in the handler's try block
    i,                \* auto_generate_pattern: readline calls made
    sample_lines,     \* auto_generate_pattern: sample_lines
    cand,             \* auto_generate_pattern: index of the candidate of the loop
    tested,           \* candidates whose test expression was run on the sample
    outcome,          \* why auto_generate_pattern returned
    ret,              \* (GENERATED_PATTERN, DATA_COLUMNS)
    line_no,          \* parse_chat_with_pattern: lines iterated
    parsed_data,      \* parse_chat_with_pattern: parsed_data
    extract_raised,   \* parse_chat_with_pattern: "no", or where it raised: "open", "read"
    status,           \* the response's status code (0: none yet)
    body              \* the response's records

vars == << filename_ok, upload, lines_to_sample, pc, temp_on_disk, temp_file_path,
           exc, i, sample_lines, cand, tested, outcome, ret, line_no, parsed_data,
           extract_raised, status, body >>

request == << filename_ok, upload, lines_to_sample >>
inferrer == << i, sample_lines, cand, tested, outcome, ret >>
extractor == << line_no, parsed_data, extract_raised >>
response == << status, body >>
tempfile == << temp_on_disk, temp_file_path >>

\* (None, None)
NoneNone == [pattern |-> 0, cols |-> << >>]

Init ==
    /\ filename_ok \in BOOLEAN
    /\ upload \in Uploads
    /\ lines_to_sample \in SampleSizes
    /\ pc = "validate"
    /\ temp_on_disk = FALSE
    /\ temp_file_path = "None"
    /\ exc = "none"
    /\ i = 0
    /\ sample_lines = << >>
    /\ cand = 0
    /\ tested = 0
    /\ outcome = "none"
    /\ ret = NoneNone
    /\ line_no = 0
    /\ parsed_data = << >>
    /\ extract_raised = "no"
    /\ status = 0
    /\ body = << >>

(***************************************************************************)
(* auto_generate_pattern                                                   *)
(***************************************************************************)
\* f.readline() after n earlier calls: the next physical line with its line
\* end, "" at the end of the file
ReadLine(file, n) == IF n < Len(file) THEN file[n + 1] \o "\n" ELSE ""

\* the sampling loop as it would be if it read until it had lines_to_sample
\* non-empty lines
MoreToSample_NonEmpty(n, sample, limit) == Len(sample) < limit /\ n < Len(upload)

\* for i in range(lines_to_sample)
MoreToSample(n, sample, limit) == n < limit

\* if line: sample_lines.append(line)
AddToSample(sample, line) == IF line # "" THEN Append(sample, line) ELSE sample

\* the shape test as it would be on the last line of the sample
ShapeTest_LastLine(c, sample) == Matches(patterns_to_try[c].test_re, sample[Len(sample)])

\* the loop as it would be without the shape test
ShapeTest_Skipped(c, sample) == TRUE

\* test_re.match(sample_lines[0])
ShapeTest(c, sample) == Matches(patterns_to_try[c].test_re, sample[1])

\* match_count after the loop over sample_lines
MatchCount(c, sample) ==
    Cardinality({k \in 1..Len(sample) : Matches(patterns_to_try[c].capture_re, sample[k])})

\* the threshold as it would be with >= for >
Accepts_AtLeast(match_count, n) == 10 * match_count >= 9 * n

\* match_count / len(sample_lines) > 0.9: the quotient of two small integers is
\* correctly rounded and 0.9 is the double nearest 9/10, so the comparison is
\* that of 10 * match_count with 9 * len(sample_lines)
Accepts(match_count, n) == 10 * match_count > 9 * n

\* the candidate the loop tries after candidate c
NextCandidate(c) == c + 1

\* return capture_re, cols
Chosen(c) == [pattern |-> c, cols |-> patterns_to_try[c].cols]

InferReturn(r, why) ==
    /\ ret' = r
    /\ outcome' = why
    /\ pc' = "after_infer"

\* with open(file_path, "r", encoding="utf-8") as f
InferOpen ==
    /\ pc = "infer_open"
    /\ pc' = "infer_read"
    /\ UNCHANGED << request, tempfile, exc, inferrer, extractor, response >>

\* except FileNotFoundError / except Exception around the open
InferOpenFails ==
    /\ pc = "infer_open"
    /\ InferReturn(NoneNone, "InputUnreadable")
    /\ UNCHANGED << request, tempfile, exc, i, sample_lines, cand, tested,
                    extractor, response >>

\* one iteration of the sampling loop
InferReadLine ==
    /\ pc = "infer_read"
    /\ MoreToSample(i, sample_lines, lines_to_sample)
    /\ i' = i + 1
    /\ sample_lines' = AddToSample(sample_lines, Strip(ReadLine(upload, i)))
    /\ UNCHANGED << request, pc, tempfile, exc, cand, tested, outcome, ret,
                    extractor, response >>

\* readline raises (an I/O error, bytes that are not UTF-8): except Exception
InferReadFails ==
    /\ pc = "infer_read"
    /\ MoreToSample(i, sample_lines, lines_to_sample)
    /\ i < Len(upload)
    /\ InferReturn(NoneNone, "InputUnreadable")
    /\ UNCHANGED << request, tempfile, exc, i, sample_lines, cand, tested,
                    extractor, response >>

\* the loop is over: if not sample_lines: return None, None
InferSampled ==
    /\ pc = "infer_read"
    /\ ~MoreToSample(i, sample_lines, lines_to_sample)
    /\ IF sample_lines = << >>
       THEN /\ InferReturn(NoneNone, "NoFormatFound")
            /\ UNCHANGED cand
       ELSE /\ pc' = "infer_try"
            /\ cand' = 1
            /\ UNCHANGED << outcome, ret >>
    /\ UNCHANGED << request, tempfile, exc, i, sample_lines, tested, extractor,
                    response >>

\* one iteration of the loop over patterns_to_try
InferTry ==
    /\ pc = "infer_try"
    /\ cand <= Len(patterns_to_try)
    /\ tested' = tested + 1
    /\ IF ShapeTest(cand, sample_lines)
       THEN /\ IF Accepts(MatchCount(cand, sample_lines), Len(sample_lines))
               THEN /\ InferReturn(Chosen(cand), "Accepted")
                    /\ UNCHANGED cand
               ELSE /\ cand' = NextCandidate(cand)
                    /\ UNCHANGED << pc, outcome, ret >>
       ELSE /\ cand' = NextCandidate(cand)
            /\ UNCHANGED << pc, outcome, ret >>
    /\ UNCHANGED << request, tempfile, exc, i, sample_lines, extractor, response >>

\* the table is exhausted: return None, None
InferExhausted ==
    /\ pc = "infer_try"
    /\ cand > Len(patterns_to_try)
    /\ InferReturn(NoneNone, "NoFormatFound")
    /\ UNCHANGED << request, tempfile, exc, i, sample_lines, cand, tested,
                    extractor, response >>

(***************************************************************************)
(* parse_chat_with_pattern                                                 *)
(***************************************************************************)
\* the last position of key k among the first n columns
LastIndex(cols, n, k) == SetMax({j \in 1..n : cols[j] = k})

\* the record as it would be without the strip of its values
Record_Unstripped(cols, groups) ==
    LET n == IF Len(cols) < Len(groups) THEN Len(cols) ELSE Len(groups)
    IN [k \in {cols[j] : j \in 1..n} |-> groups[LastIndex(cols, n, k)]]

\* dict(zip(columns, match.groups())) with every string value stripped
Record(cols, groups) ==
    LET n == IF Len(cols) < Len(groups) THEN Len(cols) ELSE Len(groups)
    IN [k \in {cols[j] : j \in 1..n} |-> Strip(groups[LastIndex(cols, n, k)])]

\* if not line: continue; match = pattern.match(line); if match: ...
KeepsLine(pattern, line) ==
    line # "" /\ Matches(patterns_to_try[pattern].capture_re, line)

\* the collection as it would be with insert(0, record)
Collect_Prepend(data, record) == << record >> \o data

\* parsed_data.append(record)
Collect(data, record) == Append(data, record)

\* the body of the loop `for line in file` for one physical line
ExtractLine(data, pattern, cols, raw) ==
    LET line == Strip(raw)
    IN IF KeepsLine(pattern, line)
       THEN Collect(data, Record(cols, Groups(patterns_to_try[pattern].capture_re, line)))
       ELSE data

\* with open(file_path, "r", encoding="utf-8") as file
ExtractOpen ==
    /\ pc = "extract_open"
    /\ pc' = "extract_line"
    /\ UNCHANGED << request, tempfile, exc, inferrer, extractor, response >>

\* the open raises: the except branch prints, and parsed_data is returned
ExtractOpenFails ==
    /\ pc = "extract_open"
    /\ extract_raised' = "open"
    /\ pc' = "after_extract"
    /\ UNCHANGED << request, tempfile, exc, inferrer, line_no, parsed_data, response >>

\* one iteration of `for line in file`
ExtractNext ==
    /\ pc = "extract_line"
    /\ line_no < Len(upload)
    /\ line_no' = line_no + 1
    /\ parsed_data' = ExtractLine(parsed_data, ret.pattern, ret.cols,
                                  upload[line_no + 1] \o "\n")
    /\ UNCHANGED << request, pc, tempfile, exc, inferrer, extract_raised, response >>

\* the iteration raises (an I/O error, bytes that are not UTF-8): the except
\* branch prints, and parsed_data is returned as it stands
ExtractReadFails ==
    /\ pc = "extract_line"
    /\ line_no < Len(upload)
    /\ extract_raised' = "read"
    /\ pc' = "after_extract"
    /\ UNCHANGED << request, tempfile, exc, inferrer, line_no, parsed_data, response >>

\* the end of the file: return parsed_data
ExtractDone ==
    /\ pc = "extract_line"
    /\ line_no = Len(upload)
    /\ pc' = "after_extract"
    /\ UNCHANGED << request, tempfile, exc, inferrer, extractor, response >>

(***************************************************************************)
(* parse_chat_file, the handler of POST /parse/                            *)
(***************************************************************************)
\* if GENERATED_PATTERN and DATA_COLUMNS
FormatFound(r) == r.pattern # 0 /\ r.cols # << >>

\* `except Exception as e` catches what the try block raises, the
\* HTTPException of the no-pattern branch included
CaughtByExcept(e) == e \in {"HTTPException400", "OSError"}

\* if not file.filename.endswith(".txt"): raise HTTPException(400)
RejectFilename ==
    /\ pc = "validate"
    /\ ~filename_ok
    /\ status' = 400
    /\ pc' = "done"
    /\ UNCHANGED << request, tempfile, exc, inferrer, extractor, body >>

\* tempfile.NamedTemporaryFile(delete=False, mode='wb')
CreateTemp ==
    /\ pc = "validate"
    /\ filename_ok
    /\ temp_on_disk' = TRUE
    /\ pc' = "copy"
    /\ UNCHANGED << request, temp_file_path, exc, inferrer, extractor, response >>

\* shutil.copyfileobj(file.file, temp_file); temp_file_path = temp_file.name
CopyUpload ==
    /\ pc = "copy"
    /\ temp_file_path' = "tmp"
    /\ pc' = "infer_open"
    /\ UNCHANGED << request, temp_on_disk, exc, inferrer, extractor, response >>

\* copyfileobj raises (the upload cannot be read, the disk is full): the with
\* block closes the file, which delete=False keeps, and temp_file_path is
\* still None
CopyFails ==
    /\ pc = "copy"
    /\ exc' = "OSError"
    /\ pc' = "except"
    /\ UNCHANGED << request, tempfile, inferrer, extractor, response >>

\* the statement after the call of auto_generate_pattern
AfterInfer ==
    /\ pc = "after_infer"
    /\ IF FormatFound(ret)
       THEN /\ pc' = "extract_open"
            /\ UNCHANGED exc
       ELSE /\ exc' = "HTTPException400"
            /\ pc' = "except"
    /\ i' = 0
    /\ sample_lines' = << >>
    /\ cand' = 0
    /\ UNCHANGED << request, tempfile, tested, outcome, ret, extractor, response >>

\* return chat_records
ReturnRecords ==
    /\ pc = "after_extract"
    /\ status' = 200
    /\ body' = parsed_data
    /\ pc' = "finally"
    /\ line_no' = 0
    /\ parsed_data' = << >>
    /\ UNCHANGED << request, tempfile, exc, inferrer, extract_raised >>

\* the except clause: raise HTTPException(status_code=500)
Except ==
    /\ pc = "except"
    /\ IF CaughtByExcept(exc)
       THEN status' = 500
       ELSE status' = 400
    /\ exc' = "none"
    /\ pc' = "finally"
    /\ UNCHANGED << request, tempfile, inferrer, extractor, body >>

\* if temp_file_path and os.path.exists(temp_file_path)
ShouldUnlink(path, exists) == path # "None" /\ exists

\* the finally block: await file.close(); os.unlink(temp_file_path)
Finally ==
    /\ pc = "finally"
    /\ temp_on_disk' = IF ShouldUnlink(temp_file_path, temp_on_disk)
                       THEN FALSE ELSE temp_on_disk
    /\ pc' = "done"
    /\ UNCHANGED << request, temp_file_path, exc, inferrer, extractor, response >>

Next ==
    \/ RejectFilename
    \/ CreateTemp
    \/ CopyUpload
    \/ CopyFails
    \/ InferOpen
    \/ InferOpenFails
    \/ InferReadLine
    \/ InferReadFails
    \/ InferSampled
    \/ InferTry
    \/ InferExhausted
    \/ AfterInfer
    \/ ExtractOpen
    \/ ExtractOpenFails
    \/ ExtractNext
    \/ ExtractReadFails
    \/ ExtractDone
    \/ ReturnRecords
    \/ Except
    \/ Finally

Spec == Init /\ [][Next]_vars

(***************************************************************************)
(* Properties                                                              *)
(***************************************************************************)
NumCandidates == Len(patterns_to_try)

TestMatches(c, line) == Matches(patterns_to_try[c].test_re, line)
CaptureMatches(c, line) == Matches(patterns_to_try[c].capture_re, line)
CaptureCount(c, sample) == Cardinality({k \in 1..Len(sample) : CaptureMatches(c, sample[k])})

\* candidate c passes its shape test on the first line of the sample and its
\* capture expression matches strictly more than 90% of the sample
Qualifies(c, sample) ==
    /\ TestMatches(c, sample[1])
    /\ 10 * CaptureCount(c, sample) > 9 * Len(sample)

ResultFor(S) ==
    IF S = {} THEN NoneNone
    ELSE [pattern |-> SetMin(S), cols |-> patterns_to_try[SetMin(S)].cols]

\* auto_generate_pattern has returned after reading its sample
Inferred == pc = "after_infer" /\ outcome # "InputUnreadable"

\* C1: the inferrer returns the capture expression and field names of the first
\* candidate, in the table's order, whose shape test matches the first sample
\* line and whose capture expression matches more than 90% of the sample, and
\* (None, None) exactly when no candidate qualifies.
C1_FirstQualifying ==
    Inferred =>
        ret = IF sample_lines = << >>
              THEN NoneNone
              ELSE ResultFor({c \in 1..NumCandidates : Qualifies(c, sample_lines)})

\* a later candidate qualifies too, and the earlier one is returned
C1_Witness ==
    /\ Inferred
    /\ ret.pattern = 1
    /\ Qualifies(3, sample_lines)
    /\ Len(sample_lines) > 1

\* C2: a candidate whose shape test passes is accepted exactly when
\* 10 * matches > 9 * sampleCount; at exactly 90% it is rejected and the loop
\* goes on to the next candidate.
C2_StrictThreshold ==
    [][(pc = "infer_try" /\ cand \in 1..NumCandidates
            /\ TestMatches(cand, sample_lines[1]))
        => IF 10 * CaptureCount(cand, sample_lines) > 9 * Len(sample_lines)
           THEN pc' = "after_infer" /\ ret'.pattern = cand
           ELSE pc' = "infer_try" /\ cand' = cand + 1 /\ ret' = ret]_vars

\* an earlier candidate matched exactly 90% of the sample and the loop went on
C2_Witness ==
    /\ pc = "infer_try"
    /\ \E c \in 1..NumCandidates :
          /\ c < cand
          /\ TestMatches(c, sample_lines[1])
          /\ 10 * CaptureCount(c, sample_lines) = 9 * Len(sample_lines)

\* a line that is not empty once stripped and that the capture expression of
\* candidate c matches
IsMatchingLine(c, line) == Strip(line) # "" /\ CaptureMatches(c, Strip(line))

\* the lines of the sequence that candidate c matches, in their order
MatchingLines(c, lines) == SelectSeq(lines, LAMBDA l : IsMatchingLine(c, l))

RecordOf(c, line) ==
    Record(patterns_to_try[c].cols, Groups(patterns_to_try[c].capture_re, Strip(line)))

\* one record per line, in the order of the lines
RecordsOf(c, lines) == [k \in 1..Len(lines) |-> RecordOf(c, lines[k])]

\* C3: the extractor returns exactly one record per physical line of the file
\* that is non-empty after trimming and matches the capture expression, in the
\* order of the lines; other lines leave no record.
C3_OneRecordPerMatchingLine ==
    (pc = "after_extract" /\ extract_raised = "no") =>
        parsed_data = RecordsOf(ret.pattern, MatchingLines(ret.pattern, upload))

\* a file of three lines whose first and third match, with different records,
\* and whose second is not empty and does not match
C3_Witness ==
    /\ pc = "after_extract"
    /\ extract_raised = "no"
    /\ line_no = 3
    /\ IsMatchingLine(ret.pattern, upload[1])
    /\ ~IsMatchingLine(ret.pattern, upload[2])
    /\ IsMatchingLine(ret.pattern, upload[3])
    /\ Strip(upload[2]) # ""
    /\ Len(parsed_data) = 2
    /\ parsed_data[1] # parsed_data[2]

\* the request samples 20 lines and the file starts with 20 lines
\* `10/5/23, 14:02 - Alice: Hello there`
DashSample ==
    /\ lines_to_sample = 20
    /\ Len(upload) >= 20
    /\ \A k \in 1..20 : upload[k] = LDash

\* C4 as stated: on that sample the inferrer selects the candidate
\* "Timestamp - User: Message" and the records have exactly the fields
\* Timestamp, User and Message.
C4_AsStated ==
    DashSample =>
        /\ Inferred => ret = [pattern |-> 4, cols |-> << "Timestamp", "User", "Message" >>]
        /\ (pc = "after_extract" /\ extract_raised = "no") =>
              \A k \in 1..Len(parsed_data) :
                  DOMAIN parsed_data[k] = {"Timestamp", "User", "Message"}

\* C4 (amended): on that sample the inferrer selects the candidate
\* "Date, Time - User: Message", second in priority, and the extractor returns
\* one record per matching line of the file, with exactly the fields Date, Time,
\* User and Message, populated and trimmed.
C4_DateTimeCandidate ==
    DashSample =>
        /\ Inferred => ret = [pattern |-> 2, cols |-> << "Date", "Time", "User", "Message" >>]
        /\ (pc = "after_extract" /\ extract_raised = "no") =>
              /\ Len(parsed_data) = Len(MatchingLines(2, upload))
              /\ \A k \in 1..Len(parsed_data) :
                    /\ DOMAIN parsed_data[k] = {"Date", "Time", "User", "Message"}
                    /\ \A f \in DOMAIN parsed_data[k] :
                          parsed_data[k][f] = Strip(parsed_data[k][f])
              /\ \A k \in 1..20 :
                    parsed_data[k] = [Date |-> "10/5/23", Time |-> "14:02",
                                      User |-> "Alice", Message |-> "Hello there"]

C4_Witness ==
    /\ DashSample
    /\ pc = "after_extract"
    /\ extract_raised = "no"
    /\ Len(parsed_data) >= 20

\* C5 as stated: with a sample of one line, the inferrer returns the first
\* candidate whose capture expression matches the line, and (None, None) when
\* no capture expression does.
C5_AsStated ==
    (Inferred /\ Len(sample_lines) = 1) =>
        ret = ResultFor({c \in 1..NumCandidates : CaptureMatches(c, sample_lines[1])})

\* C5 (amended): with a sample of one line, the inferrer returns the first
\* candidate whose shape test and capture expression both match the line, and
\* (None, None) when there is none.
C5_SingleLine ==
    (Inferred /\ Len(sample_lines) = 1) =>
        ret = ResultFor({c \in 1..NumCandidates :
                            /\ TestMatches(c, sample_lines[1])
                            /\ CaptureMatches(c, sample_lines[1])})

\* a candidate whose capture expression matches the single line is passed over
\* because its shape test fails
C5_Witness ==
    /\ Inferred
    /\ Len(sample_lines) = 1
    /\ \E c \in 1..NumCandidates :
          /\ CaptureMatches(c, sample_lines[1])
          /\ ~TestMatches(c, sample_lines[1])
          /\ ret.pattern > c

\* C6: an unreadable input and an exhausted candidate table never produce the
\* same return value.
C6_UnreadableDistinct ==
    (pc = "after_infer" /\ outcome = "InputUnreadable") => ret # NoneNone

\* C7: when the iteration over the file raises, the caller is given a failure,
\* never the records collected before it as a successful result.
C7_AllOrNothing ==
    (pc = "done" /\ extract_raised = "read") => (status # 200 /\ body = << >>)

\* C8: the inferrer makes at most lines_to_sample readline calls, and when none
\* of the first lines_to_sample physical lines is non-empty after trimming it
\* returns (None, None) without testing a candidate, whatever follows them.
C8_BlankSample ==
    /\ i <= lines_to_sample
    /\ (Inferred /\ \A k \in 1..lines_to_sample : k <= Len(upload) => Strip(upload[k]) = "")
          => (ret = NoneNone /\ tested = 0 /\ i = lines_to_sample)

\* blank lines fill the sample bound and a non-empty line follows them
C8_Witness ==
    /\ Inferred
    /\ lines_to_sample < Len(upload)
    /\ \A k \in 1..lines_to_sample : Strip(upload[k]) = ""
    /\ Strip(upload[lines_to_sample + 1]) # ""
    /\ ret = NoneNone

\* C9: a request whose inference finds no format is answered with status 400.
C9_NoFormatIs400 ==
    (pc = "done" /\ filename_ok /\ outcome = "NoFormatFound") => status = 400

\* C10: no temporary file is left on disk when the handler finishes.
C10_TempFileRemoved ==
    pc = "done" => ~temp_on_disk

====
